---- MODULE Spec2Model ----
(***************************************************************************)
(* Model of the chunk-merge pipeline of utils/gdb_utils.py (GDBProcessor): *)
(* planning of balanced chunks, the worker pool running                    *)
(* _process_chunk_gdb, the merge into the final geodatabase, compaction    *)
(* and the cleanup of the temporary directory.  arcpy.env.workspace is     *)
(* modelled per operating-system process (the main process is process 0,   *)
(* the pool processes are 1..max_workers).                                 *)
(***************************************************************************)
EXTENDS Integers, Sequences, FiniteSets, TLC

(* ------------------------------ bounds --------------------------------- *)
\* largest number of .shp files discovered in one pipeline run
MaxFiles == 2
\* largest host CPU count of a pipeline run
MaxCpu == 4
\* largest number of injected collaborator failures in one run
MaxFaults == 1
\* number of entries of FEATURES that are modelled
NumFeatures == 2
\* planner-only runs: files, sizes and chunk counts
PlanFiles == 4
PlanMaxSize == 2
PlanChunks == 3
\* chunk counts of the runs compared for the shape of their output
ShapeChunks == 2
\* core counts for which the result of __init__ is evaluated
HostCpus == 64
\* scoped-workspace runs: nesting depth
MaxDepth == 3

(* ----------------------- constants of the class ------------------------ *)
RUSTICO_DATASET == "Rustico"
URBANO_DATASET == "Urbano"
DATASETS == <<RUSTICO_DATASET, URBANO_DATASET>>
ALL_FEATURES == <<"ALTIPUN", "CONSTRU", "EJES", "ELEMLIN", "ELEMPUN", "ELEMTEX",
                  "HOJAS", "LIMITES", "MAPA", "MASA", "PARCELA", "SUBPARCE">>
FEATURES == SubSeq(ALL_FEATURES, 1, IF NumFeatures < 12 THEN NumFeatures ELSE 12)
MIN_FREE_CORES == 2
max_retries == 3

\* the value None of arcpy.env.workspace, and the paths used as workspaces
None == "None"
FINAL_GDB == "out/final.gdb"
CALLER_WS == "caller.gdb"
SHAPE_TYPES == {"Point", "Polygon"}

VARIABLES
  cpu_count,        \* multiprocessing.cpu_count()
  CHUNKS_PER_TYPE,  \* self.CHUNKS_PER_TYPE
  max_workers,      \* self.max_workers
  input_dirs,       \* the list handed to process_directory
  input_files,      \* the .shp files on disk: [dir, size, feature, shapeType]
  dirs_on_disk,     \* the input directories (by position in input_dirs) that exist
  firstRun,         \* geodatabase of a task as its first run left it, once it is run again
  mainPc,           \* position of process_directory
  chunk_gdbs,       \* the dict returned by _create_balanced_chunks (insertion order)
  stores,           \* the geodatabases on disk, by path
  tasks,            \* the starmap task list: [input_files, chunk_gdb]
  taskPc,           \* position of every task inside _process_chunk_gdb
  results,          \* return value of every task ("none" until it returns)
  procTask,         \* task run by every pool process (0: idle)
  raisedIn,         \* the tasks in which an exception left a step of the with block
  ws,               \* arcpy.env.workspace of every process
  saved,            \* 'original' of the open _managed_workspace scopes, per process
  entryWs,          \* workspace at the entry of the routine in progress, per process
  lastCall,         \* last routine that returned, per process: [routine, wsIn, wsOut, arg]
  mergeIdx,         \* next (dataset, feature) pair of _merge_final_gdbs
  writes,           \* what _merge_feature_type did for every pair visited
  temp_dir,         \* temp_processing on disk: [exists, locked]
  attempt,          \* loop variable of _cleanup_temp_dir
  warned,           \* the final warning of _cleanup_temp_dir was printed
  cleanup_ops,      \* the operations _cleanup_temp_dir has performed, in order
  final_ops,        \* what _merge_final_gdbs did to have the final geodatabase
  faults            \* number of collaborator failures injected so far

vars == <<cpu_count, CHUNKS_PER_TYPE, max_workers, input_dirs, input_files, dirs_on_disk,
          firstRun, mainPc,
          chunk_gdbs, stores, tasks, taskPc, results, procTask, raisedIn, ws, saved,
          entryWs,
          lastCall, mergeIdx, writes, temp_dir, attempt,
          warned, cleanup_ops, final_ops, faults>>

(* ------------------------- small helpers ------------------------------- *)
Range(s) == {s[i] : i \in DOMAIN s}
Min(a, b) == IF a < b THEN a ELSE b
Max(a, b) == IF a > b THEN a ELSE b

RECURSIVE SumSeq(_)
SumSeq(s) == IF s = <<>> THEN 0 ELSE Head(s) + SumSeq(Tail(s))

RECURSIVE Concat(_)
Concat(ss) == IF ss = <<>> THEN <<>> ELSE Head(ss) \o Concat(Tail(ss))

(* --------------------- GDBProcessor.__init__ --------------------------- *)
\* int(cpu_count * 0.70); equal to floor(7n/10) for every n of the model
UsedCoresRaw(n) == (7 * n) \div 10

\* variant: the correction for MIN_FREE_CORES is missing
UsedCoresNoFloor(n) == UsedCoresRaw(n)

\* used_cores after 'if free_cores < MIN_FREE_CORES'
UsedCores(n) ==
  IF n - UsedCoresRaw(n) < MIN_FREE_CORES THEN n - MIN_FREE_CORES ELSE UsedCoresRaw(n)

ChunksPerType(n) == Max(2, UsedCores(n) \div 2)

MaxWorkers(n) == UsedCores(n)

\* pool processes that can exist in the model
MaxProcs == Max(1, MaxCpu)
Procs == 0 .. MaxProcs
PoolProcs == 1 .. MaxProcs

(* ------------------- _create_balanced_chunks --------------------------- *)
RUSTICO_WORDS == {"out/Rustico", "out/Rústico", "out/Rústico2"}

\* is_rustico = any(r in input_dir for r in ["Rustico", "Rústico"])
IsRustico(input_dir) == input_dir \in RUSTICO_WORDS

Prefix(input_dir) == IF IsRustico(input_dir) THEN "R" ELSE "U"

\* variant: the chunk number is left out of the name
ChunkNameNoNumber(prefix, chunk_num) == "chunk_" \o prefix \o ".gdb"

\* f"chunk_{prefix}{chunk_num}.gdb" joined to temp_dir
ChunkName(prefix, chunk_num) == "chunk_" \o prefix \o ToString(chunk_num) \o ".gdb"

GdbPath(prefix, chunk_num) == "temp_processing/chunks/" \o ChunkName(prefix, chunk_num)

\* os.walk of one input directory: the indices of its .shp files, in walk
\* order; os.walk is called without onerror, so a directory that does not
\* exist yields nothing
FilesWithSize(files, d) ==
  LET RECURSIVE Walk(_)
      Walk(i) == IF i > Len(files) THEN <<>>
                 ELSE (IF files[i].dir = d THEN <<i>> ELSE <<>>) \o Walk(i + 1)
  IN IF d \in dirs_on_disk THEN Walk(1) ELSE <<>>

\* sorted(files_with_size, key=size, reverse=True): stable, largest first
RECURSIVE SortedBySize(_, _)
SortedBySize(files, s) ==
  IF s = <<>> THEN <<>>
  ELSE LET x == Head(s)
           t == SortedBySize(files, Tail(s))
           k == Cardinality({j \in DOMAIN t : files[t[j]].size > files[x].size})
       IN SubSeq(t, 1, k) \o <<x>> \o SubSeq(t, k + 1, Len(t))

\* variant: every file goes to the first chunk
SmallestIdxFirst(chunk_sizes) == 1

\* variant: among equal smallest totals the last chunk is taken
SmallestIdxLast(chunk_sizes) ==
  CHOOSE i \in DOMAIN chunk_sizes :
    /\ \A j \in DOMAIN chunk_sizes : chunk_sizes[i] <= chunk_sizes[j]
    /\ \A j \in (i + 1) .. Len(chunk_sizes) : chunk_sizes[j] > chunk_sizes[i]

\* chunk_sizes.index(min(chunk_sizes))
SmallestIdx(chunk_sizes) ==
  CHOOSE i \in DOMAIN chunk_sizes :
    /\ \A j \in DOMAIN chunk_sizes : chunk_sizes[i] <= chunk_sizes[j]
    /\ \A j \in 1 .. (i - 1) : chunk_sizes[j] > chunk_sizes[i]

\* one iteration of the distribution loop: the file goes to the smallest chunk
AssignFile(files, st, f) ==
  LET smallest_idx == SmallestIdx(st.chunk_sizes)
  IN [chunks |-> [st.chunks EXCEPT ![smallest_idx] = Append(@, f)],
      chunk_sizes |-> [st.chunk_sizes EXCEPT ![smallest_idx] = @ + files[f].size]]

RECURSIVE Distribute(_, _, _)
Distribute(files, st, sorted) ==
  IF sorted = <<>> THEN st
  ELSE Distribute(files, AssignFile(files, st, Head(sorted)), Tail(sorted))

\* chunks and chunk_sizes of one input directory after the distribution loop
BalancedChunks(files, C, d) ==
  Distribute(files,
             [chunks |-> [i \in 1 .. C |-> <<>>], chunk_sizes |-> [i \in 1 .. C |-> 0]],
             SortedBySize(files, FilesWithSize(files, d)))

\* chunk_gdbs[gdb_path] = chunk_files on an insertion-ordered dict
DictPut(dict, key, value) ==
  IF \E i \in DOMAIN dict : dict[i].gdb = key
  THEN [i \in DOMAIN dict |-> IF dict[i].gdb = key THEN [gdb |-> key, files |-> value]
                                                   ELSE dict[i]]
  ELSE Append(dict, [gdb |-> key, files |-> value])

\* variant: the chunks of every directory are numbered from 0
ChunkOffsetNone(idx, C) == 0

\* chunk_offset = idx * self.CHUNKS_PER_TYPE
ChunkOffset(idx, C) == idx * C

\* variant: a geodatabase is created for an empty chunk too
KeepChunkAlways(chunk_files) == TRUE

\* 'if chunk_files:' of the creation loop
KeepChunk(chunk_files) == chunk_files # <<>>

\* the (gdb_path, chunk_files) pairs of the non-empty chunks of directory idx
\* (idx counts from 0 as enumerate does), in creation order
ChunkEntries(files, C, dirs, idx) ==
  LET chunks == BalancedChunks(files, C, idx + 1).chunks
      chunk_offset == ChunkOffset(idx, C)
      RECURSIVE Entries(_)
      Entries(i) ==
        IF i > C THEN <<>>
        ELSE (IF KeepChunk(chunks[i])
              THEN <<[gdb |-> GdbPath(Prefix(dirs[idx + 1]), (i - 1) + chunk_offset),
                      files |-> chunks[i]]>>
              ELSE <<>>) \o Entries(i + 1)
  IN Entries(1)

\* variant: the loop over the directories ends at the first one without files
PlannedEntriesUntilEmpty(files, C, dirs) ==
  LET RECURSIVE From(_)
      From(k) == IF k > Len(dirs) \/ ChunkEntries(files, C, dirs, k - 1) = <<>> THEN <<>>
                 ELSE ChunkEntries(files, C, dirs, k - 1) \o From(k + 1)
  IN From(1)

\* every CreateFileGDB_management / dict store of the planner, in program order
PlannedEntries(files, C, dirs) ==
  Concat([k \in 1 .. Len(dirs) |-> ChunkEntries(files, C, dirs, k - 1)])

RECURSIVE PutAll(_, _)
PutAll(dict, entries) ==
  IF entries = <<>> THEN dict
  ELSE PutAll(DictPut(dict, Head(entries).gdb, Head(entries).files), Tail(entries))

\* the dict returned by _create_balanced_chunks when no creation raises
CreateBalancedChunks(files, C, dirs) == PutAll(<<>>, PlannedEntries(files, C, dirs))

\* a freshly created, empty file geodatabase
\* (conversions counts the FeatureClassToFeatureClass_conversion calls that
\* wrote into it)
EmptyGdb == [datasets |-> {}, imported |-> {}, coded |-> {}, targets |-> <<>>,
             enriched |-> {}, conversions |-> 0]

(* ------------------------ the geodatabases ----------------------------- *)
Exists(path) == path \in DOMAIN stores

TargetName(dataset, feature) == dataset \o "_" \o feature

\* the (dataset, feature) pairs in the order of the nested loops over
\* DATASETS and FEATURES
PAIRS ==
  Concat([d \in 1 .. Len(DATASETS) |->
            [f \in 1 .. Len(FEATURES) |-> [dataset |-> DATASETS[d], feature |-> FEATURES[f]]]])

NumPairs == Len(PAIRS)

\* arcpy.ListFeatureClasses() at the root of a chunk geodatabase: the imported
\* shapefiles, by file index
ListFeatureClasses(gdb) ==
  LET RECURSIVE Listing(_)
      Listing(i) == IF i > Len(input_files) THEN <<>>
                    ELSE (IF i \in gdb.imported THEN <<i>> ELSE <<>>) \o Listing(i + 1)
  IN Listing(1)

\* matches = [fc for fc in ListFeatureClasses() if feature_type_upper in fc.upper()]
Matches(gdb, feature) ==
  SelectSeq(ListFeatureClasses(gdb), LAMBDA fc : input_files[fc].feature = feature)

\* _find_template: 0 stands for None
FindTemplate(gdb, feature) ==
  LET matches == Matches(gdb, feature)
      points == SelectSeq(matches, LAMBDA fc : input_files[fc].shapeType = "Point")
  IN IF matches = <<>> THEN 0
     ELSE IF feature = "ALTIPUN" /\ points # <<>> THEN Head(points)
     ELSE Head(matches)

\* the targets _create_feature_classes has to create, in loop order
MissingTargets(gdb) ==
  SelectSeq(PAIRS, LAMBDA pr :
    /\ TargetName(pr.dataset, pr.feature) \notin DOMAIN gdb.targets
    /\ FindTemplate(gdb, pr.feature) # 0)

\* CreateFeatureclass_management for the first n missing targets
CreateTargets(gdb, n) ==
  LET todo == SubSeq(MissingTargets(gdb), 1, n)
      names == {TargetName(todo[i].dataset, todo[i].feature) : i \in DOMAIN todo}
      featOf(nm) == (CHOOSE i \in DOMAIN todo :
                        TargetName(todo[i].dataset, todo[i].feature) = nm)
  IN [gdb EXCEPT !.targets =
        [nm \in (DOMAIN gdb.targets) \cup names |->
           IF nm \in DOMAIN gdb.targets THEN gdb.targets[nm]
           ELSE [feature |-> todo[featOf(nm)].feature,
                 shapeType |-> input_files[FindTemplate(gdb, todo[featOf(nm)].feature)].shapeType,
                 rows |-> <<>>]]]

\* the existing targets, in the loop order of _append_feature_classes
ExistingTargets(gdb) ==
  SelectSeq(PAIRS, LAMBDA pr : TargetName(pr.dataset, pr.feature) \in DOMAIN gdb.targets)

\* variant: the sources are not filtered by geometry
AppendSourcesAnyShape(gdb, nm) ==
  SelectSeq(ListFeatureClasses(gdb), LAMBDA fc :
    input_files[fc].feature = gdb.targets[nm].feature)

\* source_fcs of one target: the root feature classes of the same feature
\* type and the same geometry
AppendSources(gdb, nm) ==
  SelectSeq(ListFeatureClasses(gdb), LAMBDA fc :
    /\ input_files[fc].feature = gdb.targets[nm].feature
    /\ input_files[fc].shapeType = gdb.targets[nm].shapeType)

\* Append_management on the first n existing targets, except those in 'bad'
\* (their Append raised and was caught)
AppendTargets(gdb, n, bad) ==
  LET done == SubSeq(ExistingTargets(gdb), 1, n)
      hit == {TargetName(done[i].dataset, done[i].feature) : i \in DOMAIN done} \ bad
  IN [gdb EXCEPT !.targets =
        [nm \in DOMAIN gdb.targets |->
           IF nm \in hit
           THEN [gdb.targets[nm] EXCEPT !.rows = @ \o AppendSources(gdb, nm)]
           ELSE gdb.targets[nm]]]

(* --------------------- _managed_workspace ------------------------------ *)
\* original = arcpy.env.workspace; arcpy.env.workspace = workspace
ManagedEnter(st, workspace) ==
  [ws |-> workspace, saved |-> Append(st.saved, st.ws)]

\* variant: the finally clause is missing, the workspace is not restored
ManagedExitKeep(st) ==
  [ws |-> st.ws, saved |-> SubSeq(st.saved, 1, Len(st.saved) - 1)]

\* finally: arcpy.env.workspace = original
ManagedExit(st) ==
  [ws |-> st.saved[Len(st.saved)], saved |-> SubSeq(st.saved, 1, Len(st.saved) - 1)]

Call(routine, wsIn, wsOut, arg) ==
  [routine |-> routine, wsIn |-> wsIn, wsOut |-> wsOut, arg |-> arg]

CanFail == faults < MaxFaults
Budget == MaxFaults - faults

(* ----------------------------- Init ------------------------------------ *)
\* the shapefiles a run can find: file i carries one feature type in its name
CatalogFeature(i) == FEATURES[(((i - 1) \div 2) % Len(FEATURES)) + 1]
CatalogShape(i) == IF i >= 3 THEN "Polygon" ELSE "Point"
CatalogSize(i) == IF i = 2 THEN 3 ELSE 1

\* the placements of at most maxFiles files into the two input directories
Placements(maxFiles) == UNION {[1 .. n -> 1 .. 2] : n \in 0 .. maxFiles}

WithCatalog(dirOf) ==
  [i \in DOMAIN dirOf |-> [dir |-> dirOf[i], size |-> CatalogSize(i),
                           feature |-> CatalogFeature(i), shapeType |-> CatalogShape(i)]]

InitRest ==
  /\ firstRun = <<>>
  /\ chunk_gdbs = <<>>
  /\ stores = <<>>
  /\ tasks = <<>>
  /\ taskPc = <<>>
  /\ results = <<>>
  /\ procTask = [p \in PoolProcs |-> 0]
  /\ raisedIn = {}
  /\ saved = [p \in Procs |-> <<>>]
  /\ lastCall = [p \in Procs |-> {}]
  /\ mergeIdx = 0
  /\ writes = <<>>
  /\ temp_dir = [exists |-> FALSE, locked |-> FALSE]
  /\ attempt = 0
  /\ warned = FALSE
  /\ cleanup_ops = <<>>
  /\ final_ops = <<>>
  /\ faults = 0

\* the state after GDBProcessor() in main(), before process_directory
Init ==
  /\ cpu_count \in 1 .. MaxCpu
  /\ CHUNKS_PER_TYPE = ChunksPerType(cpu_count)
  /\ max_workers = MaxWorkers(cpu_count)
  /\ input_dirs = <<"out/Rústico", "out/Urbano">>
  /\ dirs_on_disk = {1, 2}
  /\ \E dirOf \in Placements(MaxFiles) : input_files = WithCatalog(dirOf)
  /\ ws = [p \in Procs |-> None]
  /\ entryWs = [p \in Procs |-> None]
  /\ mainPc = "start"
  /\ InitRest

(* ------------------------ process_directory ---------------------------- *)
mainVars == <<mainPc, chunk_gdbs, mergeIdx, writes, temp_dir, attempt, warned,
              cleanup_ops, final_ops>>
poolVars == <<tasks, taskPc, results, procTask, raisedIn>>
\* what no step of process_directory changes
configVars == <<cpu_count, CHUNKS_PER_TYPE, max_workers, input_dirs, input_files,
                dirs_on_disk, firstRun>>
wsVars == <<ws, saved, entryWs, lastCall>>

\* the outcome of the planner on the creations 'entries' it attempts: all
\* succeed and the dict 'planned' is returned, or the n-th
\* CreateFileGDB_management raises with the earlier geodatabases on disk
PlanOutcome(entries, planned) ==
  \/ /\ chunk_gdbs' = planned
     /\ stores' = [g \in {entries[i].gdb : i \in DOMAIN entries} |-> EmptyGdb]
     /\ mainPc' = "planned"
     /\ faults' = faults
  \/ \E n \in DOMAIN entries :
       /\ CanFail
       /\ chunk_gdbs' = <<>>
       /\ stores' = [g \in {entries[i].gdb : i \in 1 .. (n - 1)} |-> EmptyGdb]
       /\ mainPc' = "fatal"
       /\ faults' = faults + 1

\* os.makedirs and _create_balanced_chunks; the n-th CreateFileGDB_management
\* may raise, which leaves process_directory through its except clause
M_Plan ==
  /\ mainPc = "start"
  /\ PlanOutcome(PlannedEntries(input_files, CHUNKS_PER_TYPE, input_dirs),
                 CreateBalancedChunks(input_files, CHUNKS_PER_TYPE, input_dirs))
  /\ temp_dir' = [exists |-> TRUE, locked |-> FALSE]
  /\ UNCHANGED <<configVars, poolVars, wsVars, mergeIdx, writes, attempt, warned,
                 cleanup_ops, final_ops>>

\* multiprocessing.Pool(processes=self.max_workers) and the task list
M_PoolStart ==
  /\ mainPc = "planned"
  /\ IF max_workers < 1
     THEN /\ mainPc' = "fatal"
          /\ UNCHANGED poolVars
     ELSE /\ mainPc' = "starmap"
          /\ tasks' = [i \in DOMAIN chunk_gdbs |->
                         [input_files |-> chunk_gdbs[i].files, chunk_gdb |-> chunk_gdbs[i].gdb]]
          /\ taskPc' = [i \in DOMAIN chunk_gdbs |-> "queued"]
          /\ results' = [i \in DOMAIN chunk_gdbs |-> "none"]
          /\ UNCHANGED <<procTask, raisedIn>>
  /\ UNCHANGED <<configVars, wsVars, chunk_gdbs, stores, mergeIdx, writes, temp_dir,
                 attempt, warned, cleanup_ops, final_ops, faults>>

(* ------------------------ _process_chunk_gdb --------------------------- *)
Running(p, step) == procTask[p] # 0 /\ taskPc[procTask[p]] = step
\* variant: every worker is handed the geodatabase of the first task
GdbShared(p) == tasks[1].chunk_gdb

\* the chunk_gdb argument of the call process p is running
Gdb(p) == tasks[procTask[p]].chunk_gdb
WsState(p) == [ws |-> ws[p], saved |-> saved[p]]
Goto(p, step) ==
  /\ taskPc' = [taskPc EXCEPT ![procTask[p]] = step]
  /\ raisedIn' = IF step = "raised" THEN raisedIn \cup {procTask[p]} ELSE raisedIn
\* variant: a pool with one process per modelled core
PoolSizeUnbounded == MaxProcs

\* multiprocessing.Pool(processes=self.max_workers)
PoolSize == max_workers

workerFrame == <<configVars, mainVars, tasks, results, procTask>>

\* an idle pool process takes the next task of the list and enters
\* 'with self._managed_workspace(chunk_gdb)'.  Idle pool processes are
\* interchangeable (each has workspace None and no open scope), so the idle
\* process of lowest number stands for all of them.
W_Dispatch(p) ==
  /\ mainPc = "starmap"
  /\ p <= PoolSize
  /\ procTask[p] = 0
  /\ \A q \in 1 .. (p - 1) : procTask[q] # 0
  /\ \E t \in DOMAIN tasks :
       /\ taskPc[t] = "queued"
       /\ \A u \in 1 .. (t - 1) : taskPc[u] # "queued"
       /\ procTask' = [procTask EXCEPT ![p] = t]
       /\ taskPc' = [taskPc EXCEPT ![t] = "datasets"]
       /\ UNCHANGED raisedIn
       /\ LET st == ManagedEnter(WsState(p), tasks[t].chunk_gdb)
          IN /\ ws' = [ws EXCEPT ![p] = st.ws]
             /\ saved' = [saved EXCEPT ![p] = st.saved]
       /\ entryWs' = [entryWs EXCEPT ![p] = ws[p]]
  /\ UNCHANGED <<configVars, mainVars, tasks, results, stores, lastCall, faults>>

\* variant: _create_datasets wrapped in _managed_workspace
CreateDatasetsScoped(p, st, gdb, n) ==
  /\ ws' = ws
  /\ stores' = [st EXCEPT ![gdb].datasets = @ \cup {DATASETS[i] : i \in 1 .. n}]

\* _create_datasets(gdb_path) on the geodatabase of process p: creates the
\* first n datasets; raises when n < 2
CreateDatasets(p, st, gdb, n) ==
  /\ ws' = [ws EXCEPT ![p] = gdb]
  /\ stores' = [st EXCEPT ![gdb].datasets = @ \cup {DATASETS[i] : i \in 1 .. n}]

W_CreateDatasets(p) ==
  /\ Running(p, "datasets")
  /\ \/ /\ CreateDatasets(p, stores, Gdb(p), Len(DATASETS))
        /\ Goto(p, "import")
        /\ faults' = faults
     \/ \E n \in 0 .. (Len(DATASETS) - 1) :
          /\ CanFail
          /\ CreateDatasets(p, stores, Gdb(p), n)
          /\ Goto(p, "raised")
          /\ faults' = faults + 1
  /\ lastCall' = [lastCall EXCEPT ![p] = {Call("_create_datasets", ws[p], ws'[p], Gdb(p))}]
  /\ UNCHANGED <<workerFrame, saved, entryWs>>

\* variant: the import loop without 'if not arcpy.Exists(fc_name)'
ImportTodoAll(files, gdb) == files

\* the files of the unit the import loop converts: those without feature class
ImportTodo(files, gdb) == files \ gdb.imported

\* the import loop: a file whose feature class exists is skipped, a failed
\* conversion is printed and the loop continues
W_Import(p) ==
  /\ Running(p, "import")
  /\ LET todo == ImportTodo(Range(tasks[procTask[p]].input_files), stores[Gdb(p)])
     IN \E failed \in SUBSET todo :
          /\ Cardinality(failed) <= Budget
          /\ stores' = [stores EXCEPT ![Gdb(p)].imported = @ \cup (todo \ failed),
                                      ![Gdb(p)].conversions = @ + Cardinality(todo \ failed)]
          /\ faults' = faults + Cardinality(failed)
  /\ Goto(p, "codes")
  /\ UNCHANGED <<workerFrame, wsVars>>

\* _setup_municipal_code_field: a failure on one feature class is printed
W_SetupCodes(p) ==
  /\ Running(p, "codes")
  /\ ws' = [ws EXCEPT ![p] = Gdb(p)]
  /\ lastCall' = [lastCall EXCEPT ![p] =
                    {Call("_setup_municipal_code_field", ws[p], ws'[p], Gdb(p))}]
  /\ LET fcs == stores[Gdb(p)].imported
     IN \E failed \in SUBSET fcs :
          /\ Cardinality(failed) <= Budget
          /\ stores' = [stores EXCEPT ![Gdb(p)].coded = @ \cup (fcs \ failed)]
          /\ faults' = faults + Cardinality(failed)
  /\ Goto(p, "create_fc")
  /\ UNCHANGED <<workerFrame, saved, entryWs>>

\* _create_feature_classes with its calls of _find_template: Describe of the
\* template or CreateFeatureclass_management may raise at the (n+1)-th target
W_CreateFeatureClasses(p) ==
  /\ Running(p, "create_fc")
  /\ ws' = [ws EXCEPT ![p] = Gdb(p)]
  /\ lastCall' = [lastCall EXCEPT ![p] =
                    {Call("_create_feature_classes", ws[p], ws'[p], Gdb(p)),
                     Call("_find_template", Gdb(p), ws'[p], Gdb(p))}]
  /\ LET gdb == stores[Gdb(p)]
         total == Len(MissingTargets(gdb))
     IN \/ /\ stores' = [stores EXCEPT ![Gdb(p)] = CreateTargets(gdb, total)]
           /\ Goto(p, "append")
           /\ faults' = faults
        \/ \E n \in 0 .. (total - 1) :
             /\ CanFail
             /\ stores' = [stores EXCEPT ![Gdb(p)] = CreateTargets(gdb, n)]
             /\ Goto(p, "raised")
             /\ faults' = faults + 1
  /\ UNCHANGED <<workerFrame, saved, entryWs>>

\* _append_feature_classes inside its own _managed_workspace scope: a failed
\* Append_management is printed; Describe of a target may raise
W_Append(p) ==
  /\ Running(p, "append")
  /\ LET inner == ManagedExit(ManagedEnter(WsState(p), Gdb(p)))
     IN /\ ws' = [ws EXCEPT ![p] = inner.ws]
        /\ saved' = [saved EXCEPT ![p] = inner.saved]
        /\ lastCall' = [lastCall EXCEPT ![p] =
                          {Call("_append_feature_classes", ws[p], ws'[p], Gdb(p))}]
  /\ LET gdb == stores[Gdb(p)]
         names == DOMAIN gdb.targets
         total == Len(ExistingTargets(gdb))
     IN \/ \E bad \in SUBSET names :
             /\ Cardinality(bad) <= Budget
             /\ stores' = [stores EXCEPT ![Gdb(p)] = AppendTargets(gdb, total, bad)]
             /\ Goto(p, "enrich")
             /\ faults' = faults + Cardinality(bad)
        \/ \E n \in 0 .. (total - 1) :
             /\ CanFail
             /\ stores' = [stores EXCEPT ![Gdb(p)] = AppendTargets(gdb, n, {})]
             /\ Goto(p, "raised")
             /\ faults' = faults + 1
  /\ UNCHANGED <<workerFrame, entryWs>>

\* CadastralInfoManager(chunk_gdb, json) and process_feature_classes for both
\* datasets: the constructor raises when the JSON file is missing (n = -1),
\* manage_fields may raise at the (n+1)-th target
W_Enrich(p) ==
  /\ Running(p, "enrich")
  /\ ws' = [ws EXCEPT ![p] = Gdb(p)]
  /\ lastCall' = [lastCall EXCEPT ![p] =
                    {Call("CadastralInfoManager.__init__", ws[p], ws'[p], Gdb(p))}]
  /\ LET gdb == stores[Gdb(p)]
         order == ExistingTargets(gdb)
         first(n) == {TargetName(order[i].dataset, order[i].feature) : i \in 1 .. n}
     IN \/ /\ stores' = [stores EXCEPT ![Gdb(p)].enriched = @ \cup first(Len(order))]
           /\ Goto(p, "return")
           /\ faults' = faults
        \/ \E n \in -1 .. (Len(order) - 1) :
             /\ CanFail
             /\ stores' = [stores EXCEPT ![Gdb(p)].enriched = @ \cup first(Max(n, 0))]
             /\ Goto(p, "raised")
             /\ faults' = faults + 1
  /\ UNCHANGED <<workerFrame, saved, entryWs>>

\* the with block is left, by 'return True' or by the exception in flight:
\* _managed_workspace restores the workspace
W_ExitScope(p) ==
  /\ \/ Running(p, "return") /\ Goto(p, "finally_true")
     \/ Running(p, "raised") /\ Goto(p, "finally_false")
  /\ LET st == ManagedExit(WsState(p))
     IN /\ ws' = [ws EXCEPT ![p] = st.ws]
        /\ saved' = [saved EXCEPT ![p] = st.saved]
  /\ UNCHANGED <<workerFrame, stores, entryWs, lastCall, faults>>

\* variant: the except clause has no return statement
ProcessChunkResultNone(step) == IF step = "finally_true" THEN "True" ELSE "None"

\* the except clause returns False, the finally clause clears the workspace,
\* the result goes to the pool
ProcessChunkResult(step) == IF step = "finally_true" THEN "True" ELSE "False"

W_Finally(p) ==
  /\ Running(p, "finally_true") \/ Running(p, "finally_false")
  /\ ws' = [ws EXCEPT ![p] = None]
  /\ results' = [results EXCEPT ![procTask[p]] = ProcessChunkResult(taskPc[procTask[p]])]
  /\ taskPc' = [taskPc EXCEPT ![procTask[p]] = "done"]
  /\ UNCHANGED raisedIn
  /\ lastCall' = [lastCall EXCEPT ![p] =
                    {Call("_process_chunk_gdb", entryWs[p], ws'[p], Gdb(p))}]
  /\ procTask' = [procTask EXCEPT ![p] = 0]
  /\ entryWs' = [entryWs EXCEPT ![p] = None]
  /\ UNCHANGED <<configVars, mainVars, tasks, stores, saved, faults>>

(* ------------------- the pool returns; the merge ----------------------- *)
\* variant: the results are taken as soon as one task has returned
PoolDrainedAny == \E t \in DOMAIN tasks : taskPc[t] = "done"

\* pool.starmap returns once every task of the list has returned
PoolDrained == \A t \in DOMAIN tasks : taskPc[t] = "done"

\* variant: all(results)
AllResults(rs) == rs # <<>> /\ \A i \in DOMAIN rs : rs[i] = "True"

\* variant: an empty result list counts as success
AnyResultOrNone(rs) == rs = <<>> \/ \E i \in DOMAIN rs : rs[i] = "True"

\* any(results)
AnyResult(rs) == \E i \in DOMAIN rs : rs[i] = "True"

\* the with block of the pool ends (its processes are terminated), then
\* 'if not any(results): raise'
M_PoolReturn ==
  /\ mainPc = "starmap"
  /\ PoolDrained
  /\ mainPc' = IF AnyResult(results) THEN "merge" ELSE "fatal"
  /\ lastCall' = [p \in Procs |-> IF p = 0 THEN lastCall[p] ELSE {}]
  /\ UNCHANGED <<configVars, poolVars, ws, saved, entryWs, chunk_gdbs, stores, mergeIdx,
                 writes, temp_dir, attempt, warned, cleanup_ops, final_ops,
                 faults>>

\* variant: CreateFileGDB_management without the arcpy.Exists test
FinalOpsAlways(existed) == <<[op |-> "Exists", found |-> existed], [op |-> "CreateFileGDB"]>>

\* 'if not arcpy.Exists(final_gdb): arcpy.CreateFileGDB_management(...)'
FinalOps(existed) ==
  <<[op |-> "Exists", found |-> existed]>>
    \o (IF existed THEN <<>> ELSE <<[op |-> "CreateFileGDB"]>>)

\* _merge_final_gdbs up to its loop: the final geodatabase is created when it
\* does not exist, then _create_datasets(final_gdb).  Whether a final
\* geodatabase of an earlier run is on disk is found out here, by
\* arcpy.Exists: nothing of the pipeline touches it before.
M_MergeBegin ==
  /\ mainPc = "merge"
  /\ entryWs' = [entryWs EXCEPT ![0] = ws[0]]
  /\ \E found \in {{}, {RUSTICO_DATASET}, Range(DATASETS)}, existed \in BOOLEAN :
       LET made == [g \in DOMAIN stores \cup {FINAL_GDB} |->
                      IF g # FINAL_GDB THEN stores[g]
                      ELSE IF existed THEN [EmptyGdb EXCEPT !.datasets = found]
                      ELSE EmptyGdb]
           missing == Range(DATASETS) \ made[FINAL_GDB].datasets
       IN /\ existed \/ found = {}
          /\ final_ops' = FinalOps(existed)
          /\ \/ /\ ~existed
                /\ CanFail
                /\ mainPc' = "fatal"
                /\ faults' = faults + 1
                /\ UNCHANGED <<stores, ws, mergeIdx>>
                /\ lastCall' = [lastCall EXCEPT ![0] =
                                  {Call("_merge_final_gdbs", ws[0], ws'[0], FINAL_GDB)}]
             \/ /\ CreateDatasets(0, made, FINAL_GDB, Len(DATASETS))
                /\ lastCall' = [lastCall EXCEPT ![0] =
                                  {Call("_create_datasets", ws[0], ws'[0], FINAL_GDB)}]
                /\ mainPc' = "merging"
                /\ mergeIdx' = 1
                /\ faults' = faults
             \/ \E n \in 0 .. (Len(DATASETS) - 1) :
                  /\ CanFail
                  /\ missing # {}
                  /\ CreateDatasets(0, made, FINAL_GDB, n)
                  /\ lastCall' = [lastCall EXCEPT ![0] =
                                    {Call("_create_datasets", ws[0], ws'[0], FINAL_GDB),
                                     Call("_merge_final_gdbs", ws[0], ws'[0], FINAL_GDB)}]
                  /\ mainPc' = "fatal"
                  /\ faults' = faults + 1
                  /\ UNCHANGED mergeIdx
  /\ UNCHANGED <<configVars, poolVars, chunk_gdbs, saved, writes, temp_dir, attempt, warned,
                 cleanup_ops>>

\* source_fcs of _merge_feature_type: the chunk geodatabases, in the order
\* of the list handed over, in which the feature class exists
SourceFcs(gdbs, name) ==
  SelectSeq(gdbs, LAMBDA g : Exists(g) /\ name \in DOMAIN stores[g].targets)

\* variant: only the first chunk geodatabase is handed over
MergeInputsFirst == [i \in DOMAIN chunk_gdbs \cap {1} |-> chunk_gdbs[i].gdb]

\* the chunk_gdbs argument process_directory hands to _merge_final_gdbs
MergeInputs == [i \in DOMAIN chunk_gdbs |-> chunk_gdbs[i].gdb]

\* variant: a single source is not copied
MergeOpNoCopy(source_fcs) == IF Len(source_fcs) < 2 THEN "skip" ELSE "merge"

\* the operation _merge_feature_type issues for a list of sources
MergeOp(source_fcs) ==
  IF source_fcs = <<>> THEN "skip"
  ELSE IF Len(source_fcs) = 1 THEN "copy" ELSE "merge"

\* variant: only the first source reaches the target
MergeOutputFirst(source_fcs, name) == stores[source_fcs[1]].targets[name]

\* the feature class the operation writes: the copy of the single source, or
\* the rows of all sources one after the other
MergeOutput(source_fcs, name) ==
  [feature |-> stores[source_fcs[1]].targets[name].feature,
   shapeType |-> stores[source_fcs[1]].targets[name].shapeType,
   rows |-> Concat([i \in DOMAIN source_fcs |-> stores[source_fcs[i]].targets[name].rows])]

PutTarget(gdb, name, fc) ==
  [gdb EXCEPT !.targets = [nm \in DOMAIN gdb.targets \cup {name} |->
                             IF nm = name THEN fc ELSE gdb.targets[nm]]]

\* variant: no try/except around the copy and the merge
NextPcUncaught(idx, ok) ==
  IF ~ok THEN "fatal" ELSE IF idx = NumPairs THEN "compact" ELSE "merging"

\* where process_directory stands after the call for pair idx: the except
\* clause of _merge_feature_type swallows the failure of the copy or merge
NextPcAfterPair(idx, ok) == IF idx = NumPairs THEN "compact" ELSE "merging"

\* one call of _merge_feature_type; a failure of the copy or of the merge is
\* caught and printed.  The return of the last call ends _merge_final_gdbs.
M_MergeFeatureType ==
  /\ mainPc = "merging"
  /\ mergeIdx <= NumPairs
  /\ LET pr == PAIRS[mergeIdx]
         name == TargetName(pr.dataset, pr.feature)
         source_fcs == SourceFcs(MergeInputs, name)
         op == MergeOp(source_fcs)
         entry(ok) == [pair |-> name, op |-> op, sources |-> source_fcs, ok |-> ok]
     IN \/ /\ op = "skip"
           /\ writes' = Append(writes, entry(TRUE))
           /\ UNCHANGED <<stores, faults>>
        \/ /\ op # "skip"
           /\ writes' = Append(writes, entry(TRUE))
           /\ stores' = [stores EXCEPT ![FINAL_GDB] =
                           PutTarget(@, name, MergeOutput(source_fcs, name))]
           /\ faults' = faults
        \/ /\ op # "skip"
           /\ CanFail
           /\ writes' = Append(writes, entry(FALSE))
           /\ faults' = faults + 1
           /\ UNCHANGED stores
  /\ mergeIdx' = mergeIdx + 1
  /\ mainPc' = NextPcAfterPair(mergeIdx, writes'[Len(writes')].ok)
  /\ UNCHANGED <<configVars, poolVars, chunk_gdbs, ws, saved, entryWs, temp_dir, attempt,
                 warned, cleanup_ops, final_ops>>
  /\ lastCall' = IF mainPc' = "merging" THEN lastCall
                 ELSE [lastCall EXCEPT ![0] =
                         {Call("_merge_final_gdbs", entryWs[0], ws'[0], FINAL_GDB)}]

\* variant: the cleanup in a finally clause, run after a failed compaction too
AfterCompactFinally(ok) == "cleanup"

\* where process_directory stands after arcpy.management.Compact: the call
\* of _cleanup_temp_dir follows only when Compact returned
AfterCompact(ok) == IF ok THEN "cleanup" ELSE "fatal"

\* arcpy.management.Compact(final_gdb)
M_Compact ==
  /\ mainPc = "compact"
  /\ \/ mainPc' = AfterCompact(TRUE) /\ faults' = faults
     \/ CanFail /\ mainPc' = AfterCompact(FALSE) /\ faults' = faults + 1
  /\ UNCHANGED <<configVars, poolVars, wsVars, chunk_gdbs, stores, mergeIdx, writes,
                 temp_dir, attempt, warned, cleanup_ops, final_ops>>

(* ------------------------ _cleanup_temp_dir ---------------------------- *)
\* what _cleanup_temp_dir does once, before its loop
EntryOps == <<"workspace_none", "ClearWorkspaceCache">>

\* variant: every iteration clears the workspace and the cache again
AttemptOpsClearing == EntryOps \o <<"unlink_locks", "sleep", "rmtree">>

\* what one iteration of the loop does when nothing raises inside the try
AttemptOps == <<"unlink_locks", "sleep", "rmtree">>

\* what iteration n (from 0) does when the walk for lock files raises: the
\* except clause sleeps only when an iteration is left
RaisedOps(n) == <<"unlink_locks">> \o (IF n < max_retries - 1 THEN <<"sleep">> ELSE <<>>)

\* the entry of _cleanup_temp_dir: workspace and cache are cleared once,
\* before the loop; other processes may hold locks in the directory
M_CleanupBegin ==
  /\ mainPc = "cleanup"
  /\ entryWs' = [entryWs EXCEPT ![0] = ws[0]]
  /\ IF ~temp_dir.exists
     THEN /\ mainPc' = "done"
          /\ UNCHANGED <<ws, temp_dir, attempt, cleanup_ops>>
          /\ lastCall' = [lastCall EXCEPT ![0] =
                            {Call("_cleanup_temp_dir", ws[0], ws'[0], "temp_processing")}]
     ELSE /\ mainPc' = "cleanup_loop"
          /\ ws' = [ws EXCEPT ![0] = None]
          /\ cleanup_ops' = cleanup_ops \o EntryOps
          /\ attempt' = 0
          /\ \E l \in BOOLEAN : temp_dir' = [temp_dir EXCEPT !.locked = l]
          /\ UNCHANGED lastCall
  /\ UNCHANGED <<configVars, poolVars, chunk_gdbs, stores, saved, mergeIdx, writes, warned,
                 final_ops, faults>>

\* variant: rmtree leaves the chunk geodatabases in place
WithoutChunksKept(st) == st

\* the stores left once temp_processing is removed
WithoutChunks(st) == [g \in DOMAIN st \cap {FINAL_GDB} |-> st[g]]

\* variant: the loop allows one iteration more than range(max_retries)
LoopExhaustedLater(n) == n = max_retries + 1

\* 'for attempt in range(max_retries)' is over after n iterations
LoopExhausted(n) == n = max_retries

CleanupReturn ==
  lastCall' = [lastCall EXCEPT ![0] =
                 {Call("_cleanup_temp_dir", entryWs[0], ws'[0], "temp_processing")}]

\* one iteration of 'for attempt in range(max_retries)': lock files are
\* unlinked best-effort, sleep, rmtree(ignore_errors=True), existence check;
\* an exception raised inside the try goes to the except clause
M_CleanupAttempt ==
  /\ mainPc = "cleanup_loop"
  /\ attempt < max_retries
  /\ UNCHANGED <<configVars, poolVars, chunk_gdbs, ws, saved, entryWs, mergeIdx, writes,
                 final_ops>>
  /\ \/ /\ ~temp_dir.locked
        /\ temp_dir' = [temp_dir EXCEPT !.exists = FALSE]
        /\ stores' = WithoutChunks(stores)
        /\ mainPc' = "done"
        /\ CleanupReturn
        /\ cleanup_ops' = cleanup_ops \o AttemptOps
        /\ UNCHANGED <<attempt, warned, faults>>
     \/ /\ temp_dir.locked
        /\ attempt' = attempt + 1
        /\ IF LoopExhausted(attempt + 1)
           THEN mainPc' = "done" /\ CleanupReturn
           ELSE UNCHANGED <<mainPc, lastCall>>
        /\ cleanup_ops' = cleanup_ops \o AttemptOps
        /\ UNCHANGED <<temp_dir, stores, warned, faults>>
     \/ /\ CanFail
        /\ faults' = faults + 1
        /\ attempt' = attempt + 1
        /\ warned' = (warned \/ ~(attempt < max_retries - 1))
        /\ cleanup_ops' = cleanup_ops \o RaisedOps(attempt)
        /\ IF LoopExhausted(attempt + 1)
           THEN mainPc' = "done" /\ CleanupReturn
           ELSE UNCHANGED <<mainPc, lastCall>>
        /\ UNCHANGED <<temp_dir, stores>>

\* the process holding a lock inside temp_processing lets go of it
EnvRelease ==
  /\ mainPc = "cleanup_loop"
  /\ temp_dir.locked
  /\ temp_dir' = [temp_dir EXCEPT !.locked = FALSE]
  /\ UNCHANGED <<configVars, poolVars, wsVars, mainPc, chunk_gdbs, stores, mergeIdx, writes,
                 attempt, warned, cleanup_ops, final_ops, faults>>

Worker(p) ==
  \/ W_Dispatch(p)
  \/ W_CreateDatasets(p)
  \/ W_Import(p)
  \/ W_SetupCodes(p)
  \/ W_CreateFeatureClasses(p)
  \/ W_Append(p)
  \/ W_Enrich(p)
  \/ W_ExitScope(p)
  \/ W_Finally(p)

Next ==
  \/ M_Plan
  \/ M_PoolStart
  \/ \E p \in PoolProcs : Worker(p)
  \/ M_PoolReturn
  \/ M_MergeBegin
  \/ M_MergeFeatureType
  \/ M_Compact
  \/ M_CleanupBegin
  \/ M_CleanupAttempt
  \/ EnvRelease

Spec == Init /\ [][Next]_vars

\* the same program with its processes scheduled: a pool process goes on with
\* the task it runs or takes a queued one, starmap returns once the list is
\* done, and the cleanup loop goes on to its next iteration
FairSpec ==
  /\ Spec
  /\ WF_vars(\E p \in PoolProcs : Worker(p))
  /\ WF_vars(M_PoolReturn)
  /\ WF_vars(M_CleanupAttempt)

\* the cleanup loop alone scheduled: `for attempt in range(max_retries)` goes
\* on to its next iteration, whatever the pool processes did before it
FairCleanup == Spec /\ WF_vars(M_CleanupAttempt)

(* ------------- _process_chunk_gdb called a second time ----------------- *)
\* once every task has returned, the call _process_chunk_gdb(input_files,
\* chunk_gdb) of one task is issued again on the geodatabase as it was left
R_Rerun(t) ==
  /\ mainPc = "starmap"
  /\ PoolDrained
  /\ t \in DOMAIN tasks
  /\ firstRun = <<>>
  /\ firstRun' = (t :> stores[tasks[t].chunk_gdb])
  /\ taskPc' = [taskPc EXCEPT ![t] = "queued"]
  /\ results' = [results EXCEPT ![t] = "none"]
  /\ raisedIn' = raisedIn \ {t}
  /\ UNCHANGED <<cpu_count, CHUNKS_PER_TYPE, max_workers, input_dirs, input_files,
                 dirs_on_disk, mainVars, tasks, procTask, stores, wsVars, faults>>

NextRerun ==
  \/ M_Plan
  \/ M_PoolStart
  \/ \E p \in PoolProcs : Worker(p)
  \/ \E t \in DOMAIN tasks : R_Rerun(t)

SpecRerun == Init /\ [][NextRerun]_vars

(* ------- the pipeline for every chunk count, one pool process ---------- *)
\* process_directory on a GDBProcessor whose CHUNKS_PER_TYPE is any count
\* from 1 on; the pool has the single process of a host with three cores
InitShape ==
  /\ cpu_count = 3
  /\ CHUNKS_PER_TYPE \in 1 .. ShapeChunks
  /\ max_workers = MaxWorkers(cpu_count)
  /\ input_dirs = <<"out/Rústico", "out/Urbano">>
  /\ dirs_on_disk = {1, 2}
  /\ \E dirOf \in Placements(MaxFiles) : input_files = WithCatalog(dirOf)
  /\ ws = [p \in Procs |-> None]
  /\ entryWs = [p \in Procs |-> None]
  /\ mainPc = "start"
  /\ InitRest

SpecShape == InitShape /\ [][Next]_vars

(* -------------- the planner alone, over all small inputs --------------- *)
\* _create_balanced_chunks for every chunk count, file placement and size
PlanInputs ==
  UNION {[1 .. n -> [dir : 1 .. 2, size : 0 .. PlanMaxSize]] : n \in 0 .. PlanFiles}

InitPlan ==
  /\ cpu_count = 0
  /\ CHUNKS_PER_TYPE \in 1 .. PlanChunks
  /\ max_workers = 1
  /\ input_dirs = <<"out/Rústico", "out/Urbano">>
  /\ dirs_on_disk \in SUBSET {1, 2}
  /\ \E fs \in PlanInputs :
       /\ \A i \in DOMAIN fs : fs[i].dir \in dirs_on_disk
       /\ input_files = [i \in DOMAIN fs |-> [dir |-> fs[i].dir, size |-> fs[i].size,
                                           feature |-> CatalogFeature(i),
                                           shapeType |-> CatalogShape(i)]]
  /\ ws = [p \in Procs |-> None]
  /\ entryWs = [p \in Procs |-> None]
  /\ mainPc = "start"
  /\ InitRest

SpecPlan == InitPlan /\ [][M_Plan]_vars

(* ------------- one worker on files of mixed geometry ------------------- *)
\* the file lists a work unit can carry: any feature type with any geometry,
\* all files from one input directory
UnitInputs ==
  UNION {[1 .. n -> [dir : {d}, size : {1}, feature : Range(FEATURES),
                     shapeType : SHAPE_TYPES]] : n \in 0 .. MaxFiles, d \in 1 .. 2}

\* one chunk per directory, so that _process_chunk_gdb is called on the
\* whole file list
InitGeom ==
  /\ cpu_count = 3
  /\ CHUNKS_PER_TYPE = 1
  /\ max_workers = MaxWorkers(cpu_count)
  /\ input_dirs = <<"out/Rústico", "out/Urbano">>
  /\ dirs_on_disk = {1, 2}
  /\ input_files \in UnitInputs
  /\ ws = [p \in Procs |-> None]
  /\ entryWs = [p \in Procs |-> None]
  /\ mainPc = "start"
  /\ InitRest

NextGeom ==
  \/ M_Plan
  \/ M_PoolStart
  \/ \E p \in PoolProcs : Worker(p)

SpecGeom == InitGeom /\ [][NextGeom]_vars

(* ------------- the planner on other lists of directories --------------- *)
\* lists of two input directories: the one main.py builds, two rustic ones,
\* two urban ones, and the urban one first
DIR_LISTS ==
  {<<"out/Rústico", "out/Urbano">>, <<"out/Rústico", "out/Rústico2">>,
   <<"out/Urbano", "out/Urbano2">>, <<"out/Urbano", "out/Rústico">>}

InitDirs ==
  /\ cpu_count = 0
  /\ CHUNKS_PER_TYPE \in 1 .. PlanChunks
  /\ max_workers = 1
  /\ input_dirs \in DIR_LISTS
  /\ dirs_on_disk = {1, 2}
  /\ \E dirOf \in Placements(MaxFiles + 1) : input_files = WithCatalog(dirOf)
  /\ ws = [p \in Procs |-> None]
  /\ entryWs = [p \in Procs |-> None]
  /\ mainPc = "start"
  /\ InitRest

SpecDirs == InitDirs /\ [][M_Plan]_vars

(* ------------- _managed_workspace alone, nested at will ---------------- *)
WORKSPACES == {None, CALLER_WS, FINAL_GDB, GdbPath("R", 0)}

InitScope ==
  /\ cpu_count = 0
  /\ CHUNKS_PER_TYPE = 2
  /\ max_workers = 1
  /\ input_dirs = <<>>
  /\ input_files = <<>>
  /\ dirs_on_disk = {}
  /\ \E w \in WORKSPACES : ws = [p \in Procs |-> IF p = 0 THEN w ELSE None]
  /\ entryWs = ws
  /\ mainPc = "scope"
  /\ InitRest

\* 'with self._managed_workspace(w):' is entered; entryWs keeps the workspace
\* found before the outermost scope
S_Enter(w) ==
  /\ mainPc = "scope"
  /\ Len(saved[0]) < MaxDepth
  /\ LET st == ManagedEnter(WsState(0), w)
     IN /\ ws' = [ws EXCEPT ![0] = st.ws]
        /\ saved' = [saved EXCEPT ![0] = st.saved]
  /\ entryWs' = IF saved[0] = <<>> THEN [entryWs EXCEPT ![0] = ws[0]] ELSE entryWs
  /\ UNCHANGED <<configVars, mainVars, poolVars, stores, lastCall, faults>>

\* the body of the innermost scope sets the workspace, as _create_datasets,
\* _setup_municipal_code_field, _create_feature_classes and _find_template do
S_Body(w) ==
  /\ mainPc \in {"scope"}
  /\ saved[0] # <<>>
  /\ ws' = [ws EXCEPT ![0] = w]
  /\ UNCHANGED <<configVars, mainVars, poolVars, stores, saved, entryWs, lastCall, faults>>

\* the body of the innermost scope raises
S_Raise ==
  /\ mainPc = "scope"
  /\ saved[0] # <<>>
  /\ mainPc' = "scope_raising"
  /\ UNCHANGED <<configVars, poolVars, wsVars, chunk_gdbs, stores, mergeIdx, writes,
                 temp_dir, attempt, warned, cleanup_ops, final_ops,
                 faults>>

\* the innermost scope is left, normally or by the exception in flight
S_Exit ==
  /\ mainPc \in {"scope", "scope_raising"}
  /\ saved[0] # <<>>
  /\ LET st == ManagedExit(WsState(0))
     IN /\ ws' = [ws EXCEPT ![0] = st.ws]
        /\ saved' = [saved EXCEPT ![0] = st.saved]
  /\ UNCHANGED <<configVars, mainVars, poolVars, stores, entryWs, lastCall, faults>>

\* an except clause around a scope catches the exception
S_Catch ==
  /\ mainPc = "scope_raising"
  /\ mainPc' = "scope"
  /\ UNCHANGED <<configVars, poolVars, wsVars, chunk_gdbs, stores, mergeIdx, writes,
                 temp_dir, attempt, warned, cleanup_ops, final_ops,
                 faults>>

NextScope ==
  \/ \E w \in WORKSPACES : S_Enter(w)
  \/ \E w \in WORKSPACES : S_Body(w)
  \/ S_Raise
  \/ S_Exit
  \/ S_Catch

SpecScope == InitScope /\ [][NextScope]_vars

(* ======================= properties of the code ======================== *)
UnitFiles(i) == Range(chunk_gdbs[i].files)
ChunkPaths == {chunk_gdbs[i].gdb : i \in DOMAIN chunk_gdbs}
PairName(i) == TargetName(PAIRS[i].dataset, PAIRS[i].feature)
MERGE_STARTED == {"merge", "merging", "compact", "cleanup", "cleanup_loop", "done"}
\* the chunk geodatabases are still on disk and the pair loop has begun
CHUNKS_READABLE == {"merging", "compact", "cleanup", "cleanup_loop"}
TaskOf(g) == CHOOSE t \in DOMAIN tasks : tasks[t].chunk_gdb = g
Count(seq, r) == Cardinality({k \in DOMAIN seq : seq[k] = r})

RECURSIVE CountIn(_, _, _)
CountIn(gdbs, name, r) ==
  IF gdbs = {} THEN 0
  ELSE LET g == CHOOSE x \in gdbs : TRUE
       IN Count(stores[g].targets[name].rows, r) + CountIn(gdbs \ {g}, name, r)

\* the chunk geodatabases on disk that hold the feature class 'name'
Holders(name) == {g \in ChunkPaths : Exists(g) /\ name \in DOMAIN stores[g].targets}

\* C1: once _create_balanced_chunks has returned, the file lists of the
\* work units are pairwise disjoint, no list names a file twice, and their
\* union is the set of discovered .shp files.
C1_PartitionComplete ==
  mainPc = "planned" =>
    /\ \A i, j \in DOMAIN chunk_gdbs : i # j => UnitFiles(i) \cap UnitFiles(j) = {}
    /\ \A i \in DOMAIN chunk_gdbs : Cardinality(UnitFiles(i)) = Len(chunk_gdbs[i].files)
    /\ UNION {UnitFiles(i) : i \in DOMAIN chunk_gdbs} = DOMAIN input_files

C1_Witness ==
  /\ mainPc = "planned"
  /\ Len(input_files) = PlanFiles
  /\ Len(chunk_gdbs) >= 3
  /\ \E i \in DOMAIN chunk_gdbs : Len(chunk_gdbs[i].files) >= 2

\* C2: whenever every _managed_workspace scope has been left, by a normal
\* return or by an exception, arcpy.env.workspace is the value it had before
\* the outermost scope was entered.
C2_ScopeRestores ==
  (mainPc \in {"scope", "scope_raising"} /\ saved[0] = <<>>) => ws[0] = entryWs[0]

\* an exception has unwound every scope and the caller's workspace is back
C2_Witness ==
  /\ mainPc = "scope_raising"
  /\ saved[0] = <<>>
  /\ ws[0] = CALLER_WS
  /\ entryWs[0] = CALLER_WS

SETTERS == {"_create_datasets", "_setup_municipal_code_field", "_create_feature_classes",
            "_find_template", "CadastralInfoManager.__init__"}

C4_MergeNeedsOneSuccess ==
  /\ [](mainPc \in MERGE_STARTED \/ Exists(FINAL_GDB) \/ writes # <<>>
          => \E t \in DOMAIN results : results[t] = "True")
  /\ [][(mainPc = "starmap" /\ mainPc' # "starmap") =>
          IF \E t \in DOMAIN results : results[t] = "True"
          THEN mainPc' = "merge" ELSE mainPc' = "fatal"]_vars

\* the merge is reached with one unit failed and one succeeded
C4_Witness ==
  /\ mainPc = "merge"
  /\ \E t \in DOMAIN results : results[t] = "False"
  /\ \E t \in DOMAIN results : results[t] = "True"

\* C5 as claimed: every source _merge_feature_type collects lies in the
\* geodatabase of a work unit whose worker returned True.
C5_OnlySuccessfulSources ==
  \A i \in DOMAIN writes : \A k \in DOMAIN writes[i].sources :
    results[TaskOf(writes[i].sources[k])] = "True"

\* C6: while the merge, the compaction or the cleanup is under way no pool
\* process runs a task and every task of the list has returned.
C6_MergeAfterDrain ==
  mainPc \in MERGE_STARTED =>
    /\ \A p \in PoolProcs : procTask[p] = 0
    /\ \A t \in DOMAIN tasks : taskPc[t] = "done" /\ results[t] # "none"

C6_Witness ==
  /\ mainPc = "merging"
  /\ Len(tasks) >= 2
  /\ writes # <<>>

\* C7: a task that has returned has the result False when an exception left
\* one of its steps and True otherwise, it has no result before, and once
\* the pool has returned every task of the list has a boolean result.
C7_WorkerReturnsBoolean ==
  /\ \A t \in DOMAIN tasks :
       IF taskPc[t] = "done"
       THEN results[t] = (IF t \in raisedIn THEN "False" ELSE "True")
       ELSE results[t] = "none"
  /\ mainPc \notin {"start", "planned", "starmap"} =>
       \A t \in DOMAIN tasks : results[t] \in {"True", "False"}

\* a unit returned False and a sibling dispatched with it returned True
C7_Witness ==
  /\ mainPc = "starmap"
  /\ \E t, u \in DOMAIN tasks :
       /\ t < u
       /\ results[t] = "False" /\ t \in raisedIn
       /\ results[u] = "True"

DatasetsFailed ==
  {t \in DOMAIN tasks :
     /\ taskPc[t] = "done"
     /\ t \in raisedIn
     /\ Exists(tasks[t].chunk_gdb)
     /\ stores[tasks[t].chunk_gdb].datasets # Range(DATASETS)}

OneDatasetFailure ==
  /\ Len(tasks) >= 2
  /\ \A t \in DOMAIN tasks : taskPc[t] = "done"
  /\ Cardinality(DatasetsFailed) = 1
  /\ \A t \in DOMAIN tasks \ DatasetsFailed : results[t] = "True"

C9_MergeFeatureType ==
  mainPc \in CHUNKS_READABLE =>
    \A i \in DOMAIN writes :
      LET name == PairName(i)
          holders == Holders(name)
          final == stores[FINAL_GDB].targets
      IN /\ writes[i].pair = name
         /\ holders = {} => writes[i].op = "skip" /\ name \notin DOMAIN final
         /\ Cardinality(holders) = 1 =>
              /\ writes[i].op = "copy"
              /\ writes[i].ok =>
                   \A g \in holders : name \in DOMAIN final /\ final[name] = stores[g].targets[name]
         /\ Cardinality(holders) >= 2 =>
              /\ writes[i].op = "merge"
              /\ writes[i].ok =>
                   /\ name \in DOMAIN final
                   /\ \A r \in DOMAIN input_files :
                        Count(final[name].rows, r) = CountIn(holders, name, r)

\* a merge of two sources with rows has been written
C9_Witness ==
  /\ mainPc = "compact"
  /\ \E i \in DOMAIN writes :
       /\ writes[i].op = "merge" /\ writes[i].ok
       /\ Len(stores[FINAL_GDB].targets[PairName(i)].rows) >= 2
  /\ \E i \in DOMAIN writes : writes[i].op = "skip"

\* C10: the pairs are visited one after the other whatever the outcome of
\* the copy or merge of an earlier pair: during the loop the next pair is the
\* one after the last visited, an abort never comes from inside the loop, and
\* once _merge_final_gdbs has returned every pair has been visited.
C10_MergeFailureCaught ==
  /\ \A i \in DOMAIN writes : writes[i].pair = PairName(i)
  /\ mainPc = "merging" => mergeIdx = Len(writes) + 1 /\ mergeIdx <= NumPairs
  /\ mainPc \in {"compact", "cleanup", "cleanup_loop", "done"} => Len(writes) = NumPairs
  /\ (mainPc = "fatal" /\ writes # <<>>) => Len(writes) = NumPairs

\* the copy or merge of one pair failed and a later pair was written
C10_Witness ==
  /\ mainPc = "compact"
  /\ \E i, j \in DOMAIN writes :
       /\ i < j
       /\ ~writes[i].ok
       /\ writes[j].ok /\ writes[j].op # "skip"

\* C11: _cleanup_temp_dir runs at most max_retries iterations: an iteration
\* that finds the directory unlocked removes it and returns at once, an
\* iteration that finds it locked counts one attempt, no iteration follows
\* the return, and the routine always returns.
C11_CleanupBounded ==
  /\ [](attempt <= max_retries)
  /\ [](mainPc = "cleanup_loop" => attempt < max_retries)
  /\ []((mainPc = "done" /\ ~temp_dir.exists) => attempt < max_retries)
  /\ [][(mainPc = "cleanup_loop" /\ (attempt' # attempt \/ mainPc' = "done")) =>
          IF ~temp_dir.locked /\ faults' = faults
          THEN mainPc' = "done" /\ ~temp_dir'.exists /\ attempt' = attempt
          ELSE /\ attempt' = attempt + 1
               /\ temp_dir'.exists
               /\ mainPc' = (IF attempt' = max_retries THEN "done" ELSE "cleanup_loop")]_vars
  /\ [][mainPc = "done" => attempt' = attempt /\ mainPc' = "done"]_vars
  /\ (mainPc = "cleanup_loop") ~> (mainPc = "done")

\* locked during two attempts, released, removed by the third
C11_Witness ==
  /\ mainPc = "done"
  /\ attempt = 2
  /\ ~temp_dir.exists
  /\ faults = 0

\* C12 as claimed: when temp_processing is still on disk after the last
\* iteration of _cleanup_temp_dir, the final warning has been printed.
C12_WarningWhenLeft ==
  (mainPc = "done" /\ temp_dir.exists /\ attempt = max_retries) => warned

Active == {p \in PoolProcs : procTask[p] # 0}

\* C13: during the pool phase at most max_workers pool processes run a task,
\* no task is run by two processes, a task that has left the queue never
\* returns to it and a returned task keeps its result, and the pool phase
\* ends with every task of the list returned.
C13_BoundedPool ==
  /\ [](Cardinality(Active) <= Max(0, max_workers))
  /\ [](\A p, q \in Active : p # q => procTask[p] # procTask[q])
  /\ [](\A t \in DOMAIN tasks :
          Cardinality({p \in Active : procTask[p] = t})
            = (IF taskPc[t] \in {"queued", "done"} THEN 0 ELSE 1))
  /\ [][\A t \in DOMAIN tasks \cap DOMAIN tasks' :
          /\ taskPc[t] # "queued" => taskPc'[t] # "queued"
          /\ taskPc[t] = "done" => taskPc'[t] = "done" /\ results'[t] = results[t]]_vars
  /\ (mainPc = "starmap") ~> (mainPc # "starmap" /\ \A t \in DOMAIN tasks : taskPc[t] = "done")

\* more work units than pool processes: one runs, one waits in the queue
C13_Witness ==
  /\ mainPc = "starmap"
  /\ max_workers = 1
  /\ Len(tasks) = 2
  /\ Cardinality(Active) = 1
  /\ \E t \in DOMAIN tasks : taskPc[t] = "queued"

\* C14: no two tasks of the list carry the same chunk geodatabase or share
\* an input file; during the pool phase a step changes a geodatabase only as
\* a step of the one task that carries it, and a chunk geodatabase holds
\* imports of its own task's files only.
C14_WorkerIsolation ==
  /\ [](\A t, u \in DOMAIN tasks : t # u =>
          /\ tasks[t].chunk_gdb # tasks[u].chunk_gdb
          /\ Range(tasks[t].input_files) \cap Range(tasks[u].input_files) = {})
  /\ [](\A t \in DOMAIN tasks :
          Exists(tasks[t].chunk_gdb) =>
            stores[tasks[t].chunk_gdb].imported \subseteq Range(tasks[t].input_files))
  /\ [][mainPc = "starmap" =>
          \A g \in DOMAIN stores :
            (g \notin DOMAIN stores' \/ stores'[g] # stores[g]) =>
              \E t \in DOMAIN tasks :
                /\ tasks[t].chunk_gdb = g
                /\ taskPc'[t] # taskPc[t]
                /\ \A u \in DOMAIN tasks \ {t} : taskPc'[u] = taskPc[u]]_vars

\* two workers are active at once, each with imports in its own geodatabase
C14_Witness ==
  /\ mainPc = "starmap"
  /\ \E p, q \in PoolProcs :
       /\ p # q /\ procTask[p] # 0 /\ procTask[q] # 0
       /\ stores[tasks[procTask[p]].chunk_gdb].imported # {}
       /\ stores[tasks[procTask[q]].chunk_gdb].imported # {}

\* the task that was run twice, its geodatabase, and the names of the
\* record sets of a geodatabase
Rerun == CHOOSE t \in DOMAIN firstRun : TRUE
RerunGdb == stores[tasks[Rerun].chunk_gdb]
RecordSets(gdb) == [imported |-> gdb.imported, targets |-> DOMAIN gdb.targets]

FirstRunComplete ==
  /\ firstRun[Rerun].imported = Range(tasks[Rerun].input_files)
  /\ MissingTargets(firstRun[Rerun]) = <<>>

UnitTotal(i) ==
  SumSeq([k \in DOMAIN chunk_gdbs[i].files |-> input_files[chunk_gdbs[i].files[k]].size])
UnitsOf(d) ==
  {i \in DOMAIN chunk_gdbs : \A k \in DOMAIN chunk_gdbs[i].files :
                               input_files[chunk_gdbs[i].files[k]].dir = d}
LargestFile(d) ==
  LET sizes == {input_files[f].size : f \in {g \in DOMAIN input_files : input_files[g].dir = d}}
  IN IF sizes = {} THEN 0 ELSE CHOOSE m \in sizes : \A x \in sizes : x <= m
TenFiles == [i \in 1 .. 10 |-> [dir |-> 1, size |-> 110 - 10 * i]]

\* C16: after planning, within one input directory the totals of any two
\* work units, and of any two of the C chunks of the distribution loop,
\* differ by at most the size of the largest file; the largest unit total is
\* at most the mean unit total plus the largest file; the sizes 100, 90, ...,
\* 10 in 4 chunks give the totals 150, 140, 130, 130.
C16_LoadBalance ==
  /\ mainPc = "planned" =>
       \A d \in DOMAIN input_dirs :
         LET sizes == BalancedChunks(input_files, CHUNKS_PER_TYPE, d).chunk_sizes
             n == Cardinality(UnitsOf(d))
         IN /\ \A i, j \in UnitsOf(d) : UnitTotal(i) - UnitTotal(j) <= LargestFile(d)
            /\ \A i, j \in DOMAIN sizes : sizes[i] - sizes[j] <= LargestFile(d)
            /\ \A i \in UnitsOf(d) :
                 n * UnitTotal(i)
                   <= SumSeq([k \in DOMAIN sizes |-> sizes[k]]) + n * LargestFile(d)
  /\ (input_files = <<>> /\ 1 \in dirs_on_disk) =>
       BalancedChunks(TenFiles, 4, 1).chunk_sizes = <<150, 140, 130, 130>>

\* two units of one directory whose totals differ by exactly the largest file
C16_Witness ==
  /\ mainPc = "planned"
  /\ \E d \in DOMAIN input_dirs : \E i, j \in UnitsOf(d) :
       /\ LargestFile(d) > 0
       /\ UnitTotal(i) - UnitTotal(j) = LargestFile(d)
       /\ Len(chunk_gdbs[i].files) >= 2

\* the record sets the final geodatabase must hold for the input files,
\* whatever their distribution over chunks: both datasets' feature class of
\* every feature type that some input file carries
ExpectedNames ==
  {TargetName(DATASETS[d], input_files[i].feature) :
     d \in DOMAIN DATASETS, i \in DOMAIN input_files}

C17_WitnessSplit ==
  /\ mainPc = "done"
  /\ faults = 0
  /\ Len(input_files) = 2
  /\ Len(chunk_gdbs) = 2
  /\ \E i \in DOMAIN writes : writes[i].op = "merge"

\* the work units whose geodatabase carries the prefix and a chunk number of
\* input directory d, and the files found in d
UnitsNamedFor(d) ==
  {i \in DOMAIN chunk_gdbs :
     \E k \in 0 .. (CHUNKS_PER_TYPE - 1) :
       chunk_gdbs[i].gdb = GdbPath(Prefix(input_dirs[d]), k + (d - 1) * CHUNKS_PER_TYPE)}
FilesIn(d) == {f \in DOMAIN input_files : input_files[f].dir = d}

\* C18: the planner ends without error unless a CreateFileGDB_management
\* fails; an input directory that does not exist gets no work unit, and the
\* work units of every directory hold exactly the files found in it.
C18_MissingDirectory ==
  /\ [](mainPc = "planned" =>
          \A d \in DOMAIN input_dirs :
            /\ d \notin dirs_on_disk => FilesIn(d) = {} /\ UnitsNamedFor(d) = {}
            /\ UNION {UnitFiles(i) : i \in UnitsNamedFor(d)} = FilesIn(d))
  /\ [][(mainPc = "start" /\ mainPc' # "start" /\ faults' = faults) =>
          mainPc' = "planned"]_vars

\* the first directory is missing, the second one has its work units
C18_Witness ==
  /\ mainPc = "planned"
  /\ dirs_on_disk = {2}
  /\ Cardinality(UnitsNamedFor(2)) >= 2

ChunkOf(f) ==
  CHOOSE k \in 1 .. CHUNKS_PER_TYPE :
    \E i \in DOMAIN chunk_gdbs :
      /\ f \in UnitFiles(i)
      /\ chunk_gdbs[i].gdb = GdbPath(Prefix(input_dirs[input_files[f].dir]),
                                     (k - 1) + (input_files[f].dir - 1) * CHUNKS_PER_TYPE)

\* g is taken before f: larger first, equal sizes in the order of the walk
TakenBefore(g, f) ==
  /\ input_files[g].dir = input_files[f].dir
  /\ \/ input_files[g].size > input_files[f].size
     \/ input_files[g].size = input_files[f].size /\ g < f

RECURSIVE SumSizes(_)
SumSizes(S) ==
  IF S = {} THEN 0
  ELSE LET f == CHOOSE x \in S : TRUE IN input_files[f].size + SumSizes(S \ {f})

\* the running total of chunk k at the moment file f is assigned
TotalBefore(f, k) ==
  SumSizes({g \in DOMAIN input_files : TakenBefore(g, f) /\ ChunkOf(g) = k})

\* C20: after planning, every file lies in the chunk whose running total was
\* smallest when the file was taken, the lowest such chunk on a tie; the
\* files of a unit are listed in the order taken (size descending); and the
\* total of every chunk is the sum of the sizes of exactly its files.
C20_AssignmentRule ==
  mainPc = "planned" =>
    /\ \A f \in DOMAIN input_files :
         \A j \in 1 .. CHUNKS_PER_TYPE :
           /\ TotalBefore(f, ChunkOf(f)) <= TotalBefore(f, j)
           /\ j < ChunkOf(f) => TotalBefore(f, j) > TotalBefore(f, ChunkOf(f))
    /\ \A i \in DOMAIN chunk_gdbs :
         \A k \in 1 .. (Len(chunk_gdbs[i].files) - 1) :
           TakenBefore(chunk_gdbs[i].files[k], chunk_gdbs[i].files[k + 1])
    /\ \A d \in DOMAIN input_dirs : \A k \in 1 .. CHUNKS_PER_TYPE :
         BalancedChunks(input_files, CHUNKS_PER_TYPE, d).chunk_sizes[k]
           = SumSizes({f \in FilesIn(d) : ChunkOf(f) = k})

\* a file met two chunks of equal, non-zero total and went to the lower one
C20_Witness ==
  /\ mainPc = "planned"
  /\ \E f \in DOMAIN input_files : \E j \in 1 .. CHUNKS_PER_TYPE :
       /\ j > ChunkOf(f)
       /\ TotalBefore(f, j) = TotalBefore(f, ChunkOf(f))
       /\ TotalBefore(f, j) > 0
       /\ input_files[f].size > 0

\* C21 as claimed: a worker returns False only when _create_datasets failed:
\* a task whose geodatabase got both datasets returns True, whatever failed
\* in the import, the municipal codes, _create_feature_classes, the append or
\* the cadastral information.
C21_SubStepsTolerated ==
  \A t \in DOMAIN tasks :
    (mainPc = "starmap" /\ results[t] = "False") =>
      stores[tasks[t].chunk_gdb].datasets # Range(DATASETS)

\* C22 as claimed: every iteration of the loop of _cleanup_temp_dir clears
\* the workspace and the workspace cache before it deletes the lock files,
\* sleeps and removes the directory: there are at least as many cache
\* clearings as removals.
C22_EveryAttemptClears ==
  /\ Count(cleanup_ops, "ClearWorkspaceCache") >= Count(cleanup_ops, "rmtree")
  /\ Count(cleanup_ops, "workspace_none") >= Count(cleanup_ops, "rmtree")

\* C22 as amended: _cleanup_temp_dir clears the workspace and the cache
\* once, before its first iteration, and the workspace stays None during the
\* loop; every iteration in which nothing raises deletes the lock files,
\* sleeps and calls rmtree, in this order, also when the directory is locked.
C22_AttemptOrder ==
  /\ [](mainPc = "cleanup_loop" => ws[0] = None)
  /\ [](cleanup_ops # <<>> =>
          /\ SubSeq(cleanup_ops, 1, 2) = <<"workspace_none", "ClearWorkspaceCache">>
          /\ Count(cleanup_ops, "ClearWorkspaceCache") = 1
          /\ Count(cleanup_ops, "workspace_none") = 1)
  /\ [](\A i \in DOMAIN cleanup_ops :
          cleanup_ops[i] = "rmtree" =>
            /\ i >= 3
            /\ cleanup_ops[i - 1] = "sleep"
            /\ cleanup_ops[i - 2] = "unlink_locks")
  /\ [][(mainPc = "cleanup_loop" /\ cleanup_ops' # cleanup_ops /\ faults' = faults) =>
          cleanup_ops' = cleanup_ops \o <<"unlink_locks", "sleep", "rmtree">>]_vars
  /\ [][mainPc # "cleanup_loop" /\ mainPc # "cleanup" => cleanup_ops' = cleanup_ops]_vars

\* the second iteration is over, the directory is still locked, and the
\* cache was cleared once
C22_Witness ==
  /\ mainPc = "cleanup_loop"
  /\ temp_dir.locked
  /\ Count(cleanup_ops, "rmtree") = 2
  /\ faults = 0

\* the stages of process_directory and the stages each may hand over to
STAGE_ORDER ==
  [start |-> {"planned", "fatal"},
   planned |-> {"starmap", "fatal"},
   starmap |-> {"merge", "fatal"},
   merge |-> {"merging", "fatal"},
   merging |-> {"merging", "compact"},
   compact |-> {"cleanup", "fatal"},
   cleanup |-> {"cleanup_loop", "done"},
   cleanup_loop |-> {"cleanup_loop", "done"},
   done |-> {},
   fatal |-> {}]

\* C23: process_directory goes through planning, the pool, the merge, the
\* compaction and the cleanup in this order, each after the previous one has
\* returned (the merge with every task returned and no pool process busy,
\* the compaction with all pairs visited); _cleanup_temp_dir has done nothing
\* unless merge and compaction returned, and a run that ended fatally has
\* temp_processing and every geodatabase created in it still on disk.
C23_StageOrder ==
  /\ [][mainPc' # mainPc => mainPc' \in STAGE_ORDER[mainPc]]_vars
  /\ [](mainPc \in MERGE_STARTED =>
          /\ \A t \in DOMAIN tasks : taskPc[t] = "done"
          /\ Active = {}
          /\ AnyResult(results))
  /\ [](mainPc \in {"compact", "cleanup", "cleanup_loop", "done"} =>
          /\ mergeIdx = NumPairs + 1
          /\ Len(writes) = NumPairs)
  /\ [][(mainPc \in {"start", "merge", "compact"} /\ faults' # faults) =>
          mainPc' = "fatal"]_vars
  /\ [](cleanup_ops # <<>> => mainPc \in {"cleanup_loop", "done"} /\ mergeIdx = NumPairs + 1)
  /\ [](mainPc \notin {"cleanup_loop", "done"} => attempt = 0 /\ cleanup_ops = <<>>)
  /\ [](mainPc = "fatal" =>
          /\ temp_dir.exists
          /\ \A i \in DOMAIN chunk_gdbs : Exists(chunk_gdbs[i].gdb))
  /\ [][mainPc' \notin {"cleanup_loop", "done"} =>
          /\ DOMAIN stores \subseteq DOMAIN stores'
          /\ temp_dir.exists => temp_dir'.exists]_vars

\* the compaction raised after a merge that wrote data: the run is fatal and
\* the chunk geodatabases are still there
C23_Witness ==
  /\ mainPc = "fatal"
  /\ mergeIdx = NumPairs + 1
  /\ chunk_gdbs # <<>>
  /\ \A i \in DOMAIN chunk_gdbs : Exists(chunk_gdbs[i].gdb)
  /\ \E i \in DOMAIN writes : writes[i].op # "skip" /\ writes[i].ok

\* the work units that hold files of input directory d
UnitsWithFilesOf(d) == {i \in DOMAIN chunk_gdbs : UnitFiles(i) \cap FilesIn(d) # {}}

\* the chunk numbers of the input directory at position idx (from 0)
ChunkNumbers(idx) == (idx * CHUNKS_PER_TYPE) .. ((idx + 1) * CHUNKS_PER_TYPE - 1)

\* C24: after planning, a work unit with files of the directory at position
\* idx is named with a chunk number in [idx*C, (idx+1)*C), so the first
\* directory has [0, C) and the second [C, 2C); no two work units have the
\* same geodatabase path and no file is lost, for every list of directories,
\* those of equal prefix letter included.
C24_UniqueChunkPaths ==
  mainPc = "planned" =>
    /\ \A i, j \in DOMAIN chunk_gdbs : i # j => chunk_gdbs[i].gdb # chunk_gdbs[j].gdb
    /\ \A d \in DOMAIN input_dirs : \A i \in UnitsWithFilesOf(d) :
         /\ UnitFiles(i) \subseteq FilesIn(d)
         /\ \E n \in ChunkNumbers(d - 1) :
              chunk_gdbs[i].gdb = GdbPath(Prefix(input_dirs[d]), n)
    /\ ChunkNumbers(0) = 0 .. (CHUNKS_PER_TYPE - 1)
    /\ ChunkNumbers(1) = CHUNKS_PER_TYPE .. (2 * CHUNKS_PER_TYPE - 1)
    /\ UNION {UnitFiles(i) : i \in DOMAIN chunk_gdbs} = DOMAIN input_files

\* two directories of the same prefix letter, each with a work unit
C24_Witness ==
  /\ mainPc = "planned"
  /\ Prefix(input_dirs[1]) = Prefix(input_dirs[2])
  /\ UnitsWithFilesOf(1) # {}
  /\ UnitsWithFilesOf(2) # {}
  /\ Len(chunk_gdbs) = 3

\* C25: the distribution loop of every input directory works on exactly
\* CHUNKS_PER_TYPE chunks, whatever the number of files; a chunk without
\* files gets no geodatabase and no task, so every work unit the planner
\* returns and every task of the pool has at least one file, and a directory
\* with n files, none of them empty, has min(C, n) work units.
C25_EmptyUnitsDropped ==
  /\ \A d \in DOMAIN input_dirs :
       Len(BalancedChunks(input_files, CHUNKS_PER_TYPE, d).chunks) = CHUNKS_PER_TYPE
  /\ \A i \in DOMAIN chunk_gdbs : chunk_gdbs[i].files # <<>>
  /\ \A t \in DOMAIN tasks : tasks[t].input_files # <<>>
  /\ mainPc \in {"planned", "starmap"} =>
       /\ DOMAIN stores = ChunkPaths
       /\ \A d \in DOMAIN input_dirs :
            (\A f \in FilesIn(d) : input_files[f].size > 0) =>
              Cardinality(UnitsNamedFor(d)) = Min(CHUNKS_PER_TYPE, Cardinality(FilesIn(d)))
  /\ mainPc = "starmap" => Len(tasks) = Len(chunk_gdbs)

\* two chunks per directory, one file in all: one work unit, one task
C25_Witness ==
  /\ mainPc = "starmap"
  /\ CHUNKS_PER_TYPE = 2
  /\ Len(input_files) = 1
  /\ Len(tasks) = 1
  /\ Cardinality(DOMAIN stores) = 1

\* the i-th pair of 'for dataset in DATASETS: for feature in FEATURES'
LoopPair(i) ==
  TargetName(DATASETS[((i - 1) \div Len(FEATURES)) + 1], FEATURES[((i - 1) % Len(FEATURES)) + 1])

FinalTargets(st) == IF FINAL_GDB \in DOMAIN st THEN st[FINAL_GDB].targets ELSE <<>>

\* C26: _merge_final_gdbs tests once whether the final geodatabase exists
\* and creates it only when it does not; the pairs are visited once each, the
\* datasets outside and the feature types inside (2 x 12 = 24 pairs in the
\* program); for every pair one of skip, copy and merge is issued, and a
\* feature class of the final geodatabase changes only in the visit of its
\* own pair.
C26_MergeOnce ==
  /\ [](final_ops # <<>> =>
          /\ final_ops[1].op = "Exists"
          /\ Len(final_ops) = (IF final_ops[1].found THEN 1 ELSE 2)
          /\ \A i \in 2 .. Len(final_ops) : final_ops[i].op = "CreateFileGDB")
  /\ [][final_ops # <<>> => final_ops' = final_ops]_vars
  /\ [](mainPc \in {"start", "planned", "starmap", "merge"} => final_ops = <<>>)
  /\ [](mainPc \in {"merging", "compact", "cleanup"} => final_ops # <<>> /\ Exists(FINAL_GDB))
  /\ [](/\ Len(writes) <= Len(DATASETS) * Len(FEATURES)
        /\ \A i \in DOMAIN writes :
             /\ writes[i].pair = LoopPair(i)
             /\ writes[i].op \in {"skip", "copy", "merge"}
             /\ \A j \in DOMAIN writes : i # j => writes[i].pair # writes[j].pair)
  /\ [](mainPc \in {"compact", "cleanup", "cleanup_loop", "done"} =>
          Len(writes) = Len(DATASETS) * Len(FEATURES))
  /\ [][\A nm \in DOMAIN FinalTargets(stores') :
          (nm \notin DOMAIN FinalTargets(stores) \/ FinalTargets(stores')[nm] # FinalTargets(stores)[nm])
            => /\ mainPc = "merging"
               /\ Len(writes') = Len(writes) + 1
               /\ nm = LoopPair(Len(writes'))
               /\ writes'[Len(writes')].op \in {"copy", "merge"}]_vars
  /\ [](Len(DATASETS) * Len(ALL_FEATURES) = 24)

\* a final geodatabase of an earlier run was found and not created again;
\* all pairs were visited and one of them was merged from two chunks
C26_Witness ==
  /\ mainPc = "compact"
  /\ final_ops = <<[op |-> "Exists", found |-> TRUE]>>
  /\ \E i \in DOMAIN writes : writes[i].op = "merge" /\ writes[i].ok
  /\ \E i \in DOMAIN writes : writes[i].op = "skip"

\* C27 as claimed: on the host of the run and for every core count from 1 to
\* HostCpus, __init__ computes max_workers >= 1 and CHUNKS_PER_TYPE >= 2, and
\* process_directory never fails for want of a pool process.
C27_PoolConstructible ==
  /\ cpu_count >= 1 => max_workers >= 1 /\ CHUNKS_PER_TYPE >= 2
  /\ \A n \in 1 .. HostCpus : MaxWorkers(n) >= 1 /\ ChunksPerType(n) >= 2
  /\ ~(mainPc = "fatal" /\ chunk_gdbs # <<>> /\ tasks = <<>> /\ faults = 0)

\* the planner has returned and there is no work unit
NoWorkUnit == mainPc \notin {"start"} /\ chunk_gdbs = <<>>

\* C28: when the planner returns no work unit, process_directory can only
\* end fatally: the pool returns an empty result list, which fails the
\* any(results) test exactly as a list of False results does; the merge is
\* not started, the final geodatabase is not created and _cleanup_temp_dir
\* does not run, so temp_processing stays on disk.
C28_NoWorkUnitIsFatal ==
  /\ [](NoWorkUnit =>
          /\ mainPc \in {"planned", "starmap", "fatal"}
          /\ tasks = <<>>
          /\ results = <<>>
          /\ final_ops = <<>>
          /\ writes = <<>>
          /\ ~Exists(FINAL_GDB)
          /\ cleanup_ops = <<>>
          /\ temp_dir.exists)
  /\ [][(mainPc = "starmap" /\ mainPc' # "starmap"
           /\ \A t \in DOMAIN results : results[t] = "False") => mainPc' = "fatal"]_vars
  /\ [][(NoWorkUnit /\ mainPc' # mainPc) =>
          mainPc' = (IF mainPc = "planned" /\ max_workers >= 1 THEN "starmap" ELSE "fatal")]_vars
  /\ [](mainPc = "starmap" /\ tasks = <<>> => ENABLED M_PoolReturn)

\* no shapefile in either directory: the pool was started and the run ended
\* fatally without any failure of a collaborator
C28_Witness ==
  /\ mainPc = "fatal"
  /\ input_files = <<>>
  /\ NoWorkUnit
  /\ max_workers >= 1
  /\ faults = 0

\* the imported feature classes of a geodatabase that carry feature type ft
ImportedOf(gdb, ft) == {f \in gdb.imported : input_files[f].feature = ft}

\* the geometry of the template: for ALTIPUN a Point feature class when
\* there is one, otherwise that of the first feature class listed
ExpectedShape(gdb, ft) ==
  LET m == ImportedOf(gdb, ft)
      first == CHOOSE f \in m : \A g \in m : f <= g
  IN IF ft = "ALTIPUN" /\ \E f \in m : input_files[f].shapeType = "Point" THEN "Point"
     ELSE input_files[first].shapeType

\* the task is past _create_feature_classes, resp. past
\* _append_feature_classes, and no exception is in flight
TARGETS_MADE == {"append", "enrich", "return", "finally_true"}
APPEND_MADE == {"enrich", "return", "finally_true"}
PastStep(t, steps) == taskPc[t] \in steps \/ (taskPc[t] = "done" /\ results[t] = "True")

\* C29: in the geodatabase of a work unit, once _create_feature_classes has
\* returned, every feature type with an imported feature class has the
\* targets of both datasets, whatever directory the files came from, with
\* the geometry of the template; once _append_feature_classes has returned,
\* each target holds only imported feature classes of its type and its
\* geometry, and all of them unless its append failed; a feature class of
\* another geometry is left out and fails nothing.
C29_BothDatasetsFilled ==
  \A t \in DOMAIN tasks :
    LET gdb == stores[tasks[t].chunk_gdb]
    IN /\ PastStep(t, TARGETS_MADE) =>
            \A ft \in Range(FEATURES) : \A ds \in Range(DATASETS) :
              IF ImportedOf(gdb, ft) = {}
              THEN TargetName(ds, ft) \notin DOMAIN gdb.targets
              ELSE /\ TargetName(ds, ft) \in DOMAIN gdb.targets
                   /\ gdb.targets[TargetName(ds, ft)].shapeType = ExpectedShape(gdb, ft)
       /\ PastStep(t, APPEND_MADE) =>
            \A ft \in Range(FEATURES) : \A ds \in Range(DATASETS) :
              LET nm == TargetName(ds, ft)
                  same == {f \in ImportedOf(gdb, ft) :
                             input_files[f].shapeType = ExpectedShape(gdb, ft)}
              IN nm \in DOMAIN gdb.targets =>
                   /\ Range(gdb.targets[nm].rows) \subseteq same
                   /\ Len(gdb.targets[nm].rows) \in {0, Cardinality(same)}
                   /\ faults = 0 => Range(gdb.targets[nm].rows) = same
       /\ faults = 0 => results[t] # "False" /\ taskPc[t] # "raised"

\* files from the urban directory only, two of one feature type with
\* different geometry: the rustic target exists and holds one of the two
C29_Witness ==
  /\ faults = 0
  /\ \A f \in DOMAIN input_files : input_files[f].dir = 2
  /\ \E t \in DOMAIN tasks :
       /\ taskPc[t] = "done"
       /\ results[t] = "True"
       /\ \E ft \in Range(FEATURES) :
            LET gdb == stores[tasks[t].chunk_gdb]
                nm == TargetName(RUSTICO_DATASET, ft)
            IN /\ Cardinality(ImportedOf(gdb, ft)) = 2
               /\ nm \in DOMAIN gdb.targets
               /\ Len(gdb.targets[nm].rows) = 1

\* the pairs whose copy or merge raised and was caught
FailedPairs == {i \in DOMAIN writes : ~writes[i].ok}

\* C30: a copy or merge that fails inside _merge_feature_type never ends
\* the run: the loop goes on, the compaction and the cleanup follow; the
\* final geodatabase has no feature class for a failed pair, and once the
\* cleanup has removed temp_processing the chunk geodatabases that held the
\* pair's rows are gone as well, in a run that ends without an exception.
C30_LossAfterCaughtFailure ==
  /\ [][mainPc = "merging" =>
          /\ mainPc' \in {"merging", "compact"}
          /\ mergeIdx' = mergeIdx + 1]_vars
  /\ [](\A i \in FailedPairs :
          /\ writes[i].sources # <<>>
          /\ Exists(FINAL_GDB) => writes[i].pair \notin DOMAIN stores[FINAL_GDB].targets
          /\ mainPc \in CHUNKS_READABLE =>
               \A k \in DOMAIN writes[i].sources :
                 /\ Exists(writes[i].sources[k])
                 /\ writes[i].pair \in DOMAIN stores[writes[i].sources[k]].targets)
  /\ []((mainPc = "done" /\ ~temp_dir.exists) =>
          /\ DOMAIN stores = {FINAL_GDB}
          /\ \A i \in FailedPairs : \A k \in DOMAIN writes[i].sources :
               ~Exists(writes[i].sources[k]))
  /\ [][(mainPc = "compact" /\ faults' = faults) => mainPc' = "cleanup"]_vars

\* the run is over and temp_processing removed: the rows of a pair whose
\* merge failed were in a chunk geodatabase and are nowhere any more
C30_Witness ==
  /\ mainPc = "done"
  /\ ~temp_dir.exists
  /\ \E i \in FailedPairs :
       /\ writes[i].sources # <<>>
       /\ writes[i].pair \notin DOMAIN stores[FINAL_GDB].targets
       /\ \A k \in DOMAIN writes[i].sources : ~Exists(writes[i].sources[k])
  /\ \E t \in DOMAIN tasks : results[t] = "True"
====
